---- MODULE Spec2Model ----
(***************************************************************************)
(* State-machine model of the GPU resource core of three-d:                *)
(*   - UniformBuffer       (src/src/core/uniform_buffer.rs)                *)
(*   - Mesh                (src/src/renderer/geometry/mesh.rs)             *)
(*   - Imposters           (src/src/object/imposters.rs)                   *)
(* The device (Context) is modelled by the ids it has handed out, the      *)
(* deletes it has received and the list of calls of the last operation.    *)
(* The program is single threaded: every public method is one action.      *)
(* f32 payload values are opaque and modelled by the elements of Vals.     *)
(***************************************************************************)
EXTENDS Integers, Sequences, FiniteSets, TLC

VARIABLES
    dev,        \* device: [next, live, dels, stale]
    calls,      \* device calls issued by the last operation, in order
    ub,         \* the UniformBuffer object
    ubGpu,      \* device-side copy of the uniform buffer's contents
    ubBound,    \* id bound to the UNIFORM_BUFFER target (0 = none)
    ubArg,      \* arguments of the last UniformBuffer call
    ubRes,      \* result of the last UniformBuffer call
    mesh,       \* the Mesh object
    material,   \* the material drawn with: the fragment source it returns
    progAttrs,  \* attributes the program linked for that material requires
    meshArg,    \* arguments of the last Mesh call
    meshRes,    \* result of the last Mesh call
    imp,        \* the Imposters object
    passes,     \* render passes of the last update_texture, in order
    impArg,     \* arguments of the last Imposters call
    impRes,     \* result of the last Imposters call
    cube,       \* the fog example's CubeMesh object
    cubeArg,    \* arguments of the last CubeMesh call
    cubeRes,    \* result of the last CubeMesh call
    logged,     \* messages the last CubeMesh call wrote to the log
    hl,         \* the HeadlessContext object
    hlArg,      \* arguments of the last HeadlessContext call
    hlBuild,    \* what build_context did in the last HeadlessContext call
    hlRes,      \* result of the last HeadlessContext call
    vsArg,      \* fragment source last given to Mesh::vertex_shader_source
    vsRes       \* what it returned

ubVars == <<ub, ubGpu, ubBound, ubArg, ubRes>>
meshVars == <<mesh, material, progAttrs, meshArg, meshRes>>
impVars == <<imp, passes, impArg, impRes>>
cubeVars == <<cube, cubeArg, cubeRes, logged>>
hlVars == <<hl, hlArg, hlBuild, hlRes>>
vsVars == <<vsArg, vsRes>>
vars == <<dev, calls, ubVars, meshVars, impVars, cubeVars, hlVars, vsVars>>

---------------------------------------------------------------------------
(* Bounds of the model *)
MaxRegions == 2     \* longest region-size list
MaxTotal == 2       \* largest sum of region sizes
MaxIds == 14        \* device ids the device hands out in one run

Vals == {0, 1}      \* two distinguishable f32 payload values
ZeroVal == 0        \* the 0.0 the mirror is initialised with

SeqsUpTo(S, n) == UNION {[1..k -> S] : k \in 0..n}

RECURSIVE SumSeq(_)
SumSeq(s) == IF s = <<>> THEN 0 ELSE s[1] + SumSeq(Tail(s))

SizeLists == {s \in SeqsUpTo(0..MaxTotal, MaxRegions) : SumSeq(s) <= MaxTotal}
DataArgs == SeqsUpTo(Vals, MaxTotal)
IndexArgs == 0..MaxRegions

---------------------------------------------------------------------------
(* Results: Ok(value) | Err(error) | a panic that unwinds out of the call *)
NoErr == <<>>
Ok(v) == [kind |-> "Ok", err |-> NoErr, val |-> v]
Err(e) == [kind |-> "Err", err |-> e, val |-> <<>>]
Panic(why) == [kind |-> "panic", err |-> <<why>>, val |-> <<>>]
NoRes == [kind |-> "none", err |-> NoErr, val |-> <<>>]

---------------------------------------------------------------------------
(* The device.  A call is [op, id, arg].  DevRun replays the calls of one  *)
(* operation: create_* makes an id live, delete_* counts a delete, any     *)
(* call naming an id that is not live is recorded in stale.                *)
Call(op, id, arg) == [op |-> op, id |-> id, arg |-> arg]

CreateOps == {"create_buffer", "create_texture", "create_framebuffer", "create_program"}
DeleteOps == {"delete_buffer", "delete_texture", "delete_framebuffer", "delete_program"}

DevInit == [next |-> 1, live |-> {}, dels |-> [i \in 1..MaxIds |-> 0], stale |-> {}]

DevStep(d, c) ==
    IF c.op \in CreateOps
    THEN [d EXCEPT !.next = c.id + 1, !.live = @ \cup {c.id}]
    ELSE IF c.op \in DeleteOps
    THEN [d EXCEPT !.live = @ \ {c.id},
                   !.dels = [@ EXCEPT ![c.id] = @ + 1],
                   !.stale = IF c.id \in d.live THEN @ ELSE @ \cup {c.id}]
    ELSE IF c.id = 0 \/ c.id \in d.live THEN d
    ELSE [d EXCEPT !.stale = @ \cup {c.id}]

DevRun(d, cs) ==
    LET F[k \in 0..Len(cs)] == IF k = 0 THEN d ELSE DevStep(F[k - 1], cs[k])
    IN  F[Len(cs)]

---------------------------------------------------------------------------
(* UniformBuffer *)
\* The objects share nothing but the device's id counter: a behaviour builds,
\* uses and drops one of them, and a constructor starts only when no other
\* object has been built.
NoOtherObject(a, b, c) == a.state = "none" /\ b.state = "none" /\ c.state = "none"

NoUB == [state |-> "none", sizes |-> <<>>, offsets |-> <<>>, data |-> <<>>, id |-> 0]

\* uniform_buffer.rs:19-24: running prefix sums of the sizes, and the total
RECURSIVE OffsetsFromPost(_, _)
OffsetsFromPost(sizes, length) ==
    IF sizes = <<>> THEN <<>>
    ELSE <<length + Head(sizes)>> \o OffsetsFromPost(Tail(sizes), length + Head(sizes))
RECURSIVE OffsetsFrom(_, _)
OffsetsFrom(sizes, length) ==
    IF sizes = <<>> THEN <<>>
    ELSE <<length>> \o OffsetsFrom(Tail(sizes), length + Head(sizes))

Zeros(n) == [i \in 1..n |-> ZeroVal]

\* usize subtraction `len - 1`: a panic on 0 when the build has overflow
\* checks (the debug profile), otherwise it wraps to usize::MAX, written -1
\* here (its two's complement reading).  `checked` is the build's setting.
UsizeSubOne(n) == IF n = 0 THEN -1 ELSE n - 1

\* uniform_buffer.rs:62-79
offset_length(b, index, checked) ==
    IF index >= Len(b.offsets)
    THEN IF checked /\ Len(b.offsets) = 0
         THEN Panic("attempt to subtract with overflow")
         ELSE Err(<<"IndexOutOfRange", index, UsizeSubOne(Len(b.offsets))>>)
    ELSE LET offset == b.offsets[index + 1]
             length == (IF index + 1 = Len(b.offsets)
                        THEN Len(b.data)
                        ELSE b.offsets[index + 2]) - offset
         IN  Ok(<<offset, length>>)

\* Vec::splice(offset..offset+length, d): the range is removed, d is put in its place
SpliceWrong(data, offset, length, d) ==
    SubSeq(data, 1, offset) \o d \o SubSeq(data, offset + 1, Len(data))
Splice(data, offset, length, d) ==
    SubSeq(data, 1, offset) \o d \o SubSeq(data, offset + length + 1, Len(data))

\* uniform_buffer.rs:81-86
sendNoUnbind(b) ==
    << Call("bind_buffer", b.id, <<>>),
       Call("buffer_data_f32", b.id, b.data) >>
send(b) ==
    << Call("bind_buffer", b.id, <<>>),
       Call("buffer_data_f32", b.id, b.data),
       Call("unbind_buffer", 0, <<>>) >>

\* uniform_buffer.rs:40: `if data.len() != length` rejects the update
LengthMatchesLoose(d, length) == Len(d) <= length
LengthMatches(d, length) == Len(d) = length

\* uniform_buffer.rs:57-60
get(b, index, checked) ==
    LET ol == offset_length(b, index, checked)
    IN  IF ol.kind # "Ok" THEN ol
        ELSE Ok(SubSeq(b.data, ol.val[1] + 1, ol.val[1] + ol.val[2]))

\* uniform_buffer.rs:16-31; create_buffer().unwrap() panics when the device fails
UBNew ==
    /\ ub.state = "none" /\ NoOtherObject(mesh, imp, cube)
    /\ dev.next <= MaxIds
    /\ \E sizes \in SizeLists, deviceOk \in BOOLEAN :
           /\ ubArg' = [op |-> "new", index |-> 0, data |-> sizes]
           /\ IF ~deviceOk
              THEN /\ ubRes' = Panic("create_buffer failed")
                   /\ calls' = <<>>
                   /\ ub' = [NoUB EXCEPT !.state = "failed"]
                   /\ UNCHANGED dev
              ELSE LET id == dev.next
                       cs == <<Call("create_buffer", id, <<>>)>>
                   IN  /\ ub' = [state |-> "live", sizes |-> sizes,
                                 offsets |-> OffsetsFrom(sizes, 0),
                                 data |-> Zeros(SumSeq(sizes)), id |-> id]
                       /\ ubRes' = Ok(<<>>)
                       /\ calls' = cs
                       /\ dev' = DevRun(dev, cs)
    /\ UNCHANGED <<ubGpu, ubBound, meshVars, impVars, cubeVars, hlVars, vsVars>>

\* What the device's UNIFORM_BUFFER target holds after one call: g.bound is the
\* buffer bound to it, g.data the contents of the uniform buffer's store.
\* An upload goes to the buffer bound to the target (uniform_buffer.rs:82-85).
UniformTargetStep(g, c) ==
    CASE c.op \in {"bind_buffer", "bind_buffer_base"} -> [g EXCEPT !.bound = c.id]
      [] c.op = "buffer_data_f32" ->
            IF g.bound = 0 THEN g ELSE [g EXCEPT !.data = c.arg]
      [] c.op = "unbind_buffer" -> [g EXCEPT !.bound = 0]
      [] OTHER -> g
UniformTargetRun(g, cs) ==
    LET F[k \in 0..Len(cs)] ==
            IF k = 0 THEN g ELSE UniformTargetStep(F[k - 1], cs[k])
    IN  F[Len(cs)]

\* uniform_buffer.rs:38-55
UBUpdate ==
    /\ ub.state = "live"
    /\ \E index \in IndexArgs, d \in DataArgs, checked \in BOOLEAN :
           /\ ubArg' = [op |-> "update", index |-> index, data |-> d]
           /\ \E ol \in {offset_length(ub, index, checked)} :
                  IF ol.kind # "Ok"
                  THEN /\ ubRes' = ol
                       /\ calls' = <<>>
                       /\ UNCHANGED <<ub, dev, ubGpu, ubBound>>
                  ELSE IF ~LengthMatches(d, ol.val[2])
                  THEN /\ ubRes' = Err(<<"SizeMismatch", index, Len(d), ol.val[2]>>)
                       /\ calls' = <<>>
                       /\ UNCHANGED <<ub, dev, ubGpu, ubBound>>
                  ELSE \E nb \in {[ub EXCEPT !.data = Splice(ub.data, ol.val[1],
                                                              ol.val[2], d)]} :
                           /\ ub' = nb
                           /\ calls' = send(nb)
                           /\ dev' = DevRun(dev, calls')
                           /\ \E g \in {UniformTargetRun([bound |-> ubBound, data |-> ubGpu],
                                                         calls')} :
                                  ubGpu' = g.data /\ ubBound' = g.bound
                           /\ ubRes' = Ok(<<>>)
    /\ UNCHANGED <<meshVars, impVars, cubeVars, hlVars, vsVars>>

UBGet ==
    /\ ub.state = "live"
    /\ \E index \in IndexArgs, checked \in BOOLEAN :
           /\ ubArg' = [op |-> "get", index |-> index, data |-> <<>>]
           /\ ubRes' = get(ub, index, checked)
           /\ calls' = <<>>
    /\ UNCHANGED <<dev, ub, ubGpu, ubBound, meshVars, impVars, cubeVars, hlVars, vsVars>>

\* uniform_buffer.rs:33-36
UBBind ==
    /\ ub.state = "live"
    /\ ubArg' = [op |-> "bind", index |-> 0, data |-> <<>>]
    /\ ubRes' = Ok(<<>>)
    /\ calls' = <<Call("bind_buffer_base", ub.id, <<>>)>>
    /\ dev' = DevRun(dev, calls')
    /\ ubBound' = UniformTargetRun([bound |-> ubBound, data |-> ubGpu], calls').bound
    /\ UNCHANGED <<ub, ubGpu, meshVars, impVars, cubeVars, hlVars, vsVars>>

\* uniform_buffer.rs:89-93: the owner going out of scope runs drop once
UBDropCallsNone(b) == <<>>
UBDropCalls(b) == <<Call("delete_buffer", b.id, <<>>)>>

UBDrop ==
    /\ ub.state = "live"
    /\ ubArg' = [op |-> "drop", index |-> 0, data |-> <<>>]
    /\ ubRes' = NoRes
    /\ calls' = UBDropCalls(ub)
    /\ dev' = DevRun(dev, calls')
    /\ ub' = [NoUB EXCEPT !.state = "dropped", !.sizes = ub.sizes, !.id = ub.id]
    /\ UNCHANGED <<ubGpu, ubBound, meshVars, impVars, cubeVars, hlVars, vsVars>>

NextUB ==
    \/ UBNew
    \/ UBUpdate
    \/ UBGet
    \/ UBBind
    \/ UBDrop


---------------------------------------------------------------------------
(* Mesh.  A fragment source is the sequence of the input declarations it   *)
(* contains; str::find(decl).is_some() is occurrence in that sequence.     *)
DeclPos == "in vec3 pos;"
DeclNor == "in vec3 nor;"
DeclTang == "in vec3 tang;"
DeclBitang == "in vec3 bitang;"
DeclUvs == "in vec2 uvs;"
DeclCol == "in vec4 col;"
Decls == {DeclPos, DeclNor, DeclTang, DeclBitang, DeclUvs, DeclCol}

Find(src, decl) == \E i \in 1..Len(src) : src[i] = decl

\* mesh.rs:96-131
vertex_shader_sourceNoBitangentCheck(frag) ==
    Ok(   (IF Find(frag, DeclPos) THEN <<"#define USE_POSITIONS">> ELSE <<>>)
       \o (IF Find(frag, DeclNor) THEN <<"#define USE_NORMALS">> ELSE <<>>)
       \o (IF Find(frag, DeclTang) THEN <<"#define USE_TANGENTS">> ELSE <<>>)
       \o (IF Find(frag, DeclUvs) THEN <<"#define USE_UVS">> ELSE <<>>)
       \o (IF Find(frag, DeclCol) THEN <<"#define USE_COLORS">> ELSE <<>>)
       \o <<"shared.frag", "mesh.vert">>)
vertex_shader_sourceFlagsLast(frag) ==
    IF Find(frag, DeclTang) /\ ~Find(frag, DeclBitang)
    THEN Err(<<"MissingBitangent">>)
    ELSE Ok(   <<"shared.frag", "mesh.vert">>
            \o (IF Find(frag, DeclPos) THEN <<"#define USE_POSITIONS">> ELSE <<>>)
            \o (IF Find(frag, DeclNor) THEN <<"#define USE_NORMALS">> ELSE <<>>)
            \o (IF Find(frag, DeclTang) THEN <<"#define USE_TANGENTS">> ELSE <<>>)
            \o (IF Find(frag, DeclUvs) THEN <<"#define USE_UVS">> ELSE <<>>)
            \o (IF Find(frag, DeclCol) THEN <<"#define USE_COLORS">> ELSE <<>>))
vertex_shader_source(frag) ==
    LET use_positions == Find(frag, DeclPos)
        use_normals == Find(frag, DeclNor)
        use_tangents == Find(frag, DeclTang)
        use_uvs == Find(frag, DeclUvs)
        use_colors == Find(frag, DeclCol)
    IN  IF use_tangents /\ ~Find(frag, DeclBitang)
        THEN Err(<<"MissingBitangent">>)
        ELSE Ok(   (IF use_positions THEN <<"#define USE_POSITIONS">> ELSE <<>>)
                \o (IF use_normals THEN <<"#define USE_NORMALS">> ELSE <<>>)
                \o (IF use_tangents THEN <<"#define USE_TANGENTS">> ELSE <<>>)
                \o (IF use_uvs THEN <<"#define USE_UVS">> ELSE <<>>)
                \o (IF use_colors THEN <<"#define USE_COLORS">> ELSE <<>>)
                \o <<"shared.frag", "mesh.vert">>)

\* Fragment sources of the materials a mesh is drawn with: without tangents,
\* with tangents but no bitangents (alone and among others), with both
MaterialSources ==
    { <<DeclPos, DeclNor>>, <<DeclTang>>, <<DeclNor, DeclTang, DeclUvs>>,
      <<DeclNor, DeclTang, DeclBitang>> }
NoMaterial == [set |-> FALSE, frag |-> <<>>]

Attrs == {"position", "uv_coordinates", "normal", "tangent", "color"}

\* Bounding boxes and transformations, along one axis: a box is <<min, max>>,
\* a transformation scales and then shifts
Boxes == { <<-1, 1>> }
Identity == [scale |-> 1, shift |-> 0]
Transforms == { Identity, [scale |-> 1, shift |-> 1], [scale |-> 0, shift |-> 0] }
\* AxisAlignedBoundingBox::transform: the box around the transformed corners
Transform(box, t) ==
    LET a == t.scale * box[1] + t.shift
        b == t.scale * box[2] + t.shift
    IN  IF a <= b THEN <<a, b>> ELSE <<b, a>>
\* Mat4::invert() is None
Singular(t) == t.scale = 0

\* mesh.rs:7-25; a buffer field holds its device id, 0 is None; singular says
\* whether the transformation has no inverse
NoMesh == [state |-> "none", position |-> 0, normal |-> 0, tangent |-> 0,
           uv |-> 0, color |-> 0, index |-> 0, singular |-> FALSE,
           aabb |-> <<0, 0>>, aabb_local |-> <<0, 0>>, transformation |-> Identity]

\* CpuMesh as Mesh::new reads it: which optional arrays are present, whether
\* validate() accepts it, and the box compute_aabb() finds around its positions
CpuMeshes == [normals : BOOLEAN, tangents : BOOLEAN, indices : BOOLEAN,
              uvs : BOOLEAN, colors : BOOLEAN, valid : BOOLEAN, aabb : Boxes]

\* mesh.rs:36-65: the buffers in the order Mesh::new creates them
NewOrder == <<"position", "normal", "tangent", "index", "uv", "color">>
Wanted(cm, field) ==
    CASE field = "position" -> TRUE
      [] field = "normal" -> cm.normals
      [] field = "tangent" -> cm.tangents
      [] field = "index" -> cm.indices
      [] field = "uv" -> cm.uvs
      [] field = "color" -> cm.colors

\* VertexBuffer::new_with_static / ElementBuffer::new_with: allocate and upload
BufferNewCalls(id) ==
    << Call("create_buffer", id, <<>>), Call("buffer_data", id, <<>>) >>
\* a buffer going out of scope releases its device allocation
BufferDropCalls(id) == <<Call("delete_buffer", id, <<>>)>>

\* Locals already created are dropped in reverse order of declaration when
\* `?` returns early (mesh.rs:36-62)
RECURSIVE DropReverse(_)
DropReverse(made) ==
    IF made = <<>> THEN <<>>
    ELSE DropReverse(Tail(made)) \o BufferDropCalls(Head(made)[2])

\* mesh.rs:36-65: runs the creations from position k on; failAt is the
\* position in NewOrder whose creation the device refuses (0 = none)
RECURSIVE NewBuffers(_, _, _, _, _, _)
NewBuffers(cm, k, failAt, id, made, cs) ==
    IF k > Len(NewOrder) THEN [ok |-> TRUE, made |-> made, calls |-> cs]
    ELSE IF ~Wanted(cm, NewOrder[k])
    THEN NewBuffers(cm, k + 1, failAt, id, made, cs)
    ELSE IF failAt = k
    THEN [ok |-> FALSE, made |-> made, calls |-> cs \o DropReverse(made)]
    ELSE NewBuffers(cm, k + 1, failAt, id + 1,
                    Append(made, <<NewOrder[k], id>>), cs \o BufferNewCalls(id))

IdOf(made, field) ==
    IF \E i \in 1..Len(made) : made[i][1] = field
    THEN (CHOOSE m \in {made[i] : i \in 1..Len(made)} : m[1] = field)[2]
    ELSE 0

\* mesh.rs:32-80
MeshNew ==
    /\ mesh.state = "none" /\ NoOtherObject(ub, imp, cube)
    /\ dev.next + Len(NewOrder) - 1 <= MaxIds
    /\ \E cm \in CpuMeshes, failAt \in 0..Len(NewOrder), debug_assertions \in BOOLEAN :
           /\ meshArg' = [op |-> "new"]
           /\ IF debug_assertions /\ ~cm.valid
              THEN /\ meshRes' = Err(<<"InvalidMesh">>)
                   /\ mesh' = [NoMesh EXCEPT !.state = "failed"]
                   /\ calls' = <<>>
                   /\ UNCHANGED dev
              ELSE \E r \in {NewBuffers(cm, 1, failAt, dev.next, <<>>, <<>>)} :
                       /\ calls' = r.calls
                       /\ dev' = DevRun(dev, r.calls)
                       /\ IF r.ok
                          THEN /\ meshRes' = Ok(<<>>)
                               /\ mesh' = [state |-> "live",
                                           position |-> IdOf(r.made, "position"),
                                           normal |-> IdOf(r.made, "normal"),
                                           tangent |-> IdOf(r.made, "tangent"),
                                           uv |-> IdOf(r.made, "uv"),
                                           color |-> IdOf(r.made, "color"),
                                           index |-> IdOf(r.made, "index"),
                                           singular |-> Singular(Identity),
                                           aabb |-> cm.aabb,
                                           aabb_local |-> cm.aabb,
                                           transformation |-> Identity]
                          ELSE /\ meshRes' = Err(<<"DeviceError", NewOrder[failAt]>>)
                               /\ mesh' = [NoMesh EXCEPT !.state = "failed"]
    /\ UNCHANGED <<material, progAttrs, ubVars, impVars, cubeVars, hlVars, vsVars>>

\* A material with a fixed fragment source (as MainMaterial, main.rs:29-43)
\* and the attributes the program linked from its sources requires
MaterialNew ==
    /\ mesh.state = "live"
    /\ ~material.set
    /\ \E frag \in MaterialSources, attrs \in SUBSET Attrs :
           /\ material' = [set |-> TRUE, frag |-> frag]
           /\ progAttrs' = attrs
           /\ meshArg' = [op |-> "material"]
           /\ meshRes' = NoRes
           /\ calls' = <<>>
    /\ UNCHANGED <<dev, mesh, ubVars, impVars, cubeVars, hlVars, vsVars>>

\* mesh.rs:215-220
set_transformationAccumulates(m, transformation) ==
    [m EXCEPT !.transformation = transformation,
              !.singular = Singular(transformation),
              !.aabb = Transform(m.aabb, transformation)]
set_transformation(m, transformation) ==
    [m EXCEPT !.transformation = transformation,
              !.singular = Singular(transformation),
              !.aabb = Transform(m.aabb_local, transformation)]

MeshSetTransformation(transformation) ==
    /\ mesh.state = "live"
    /\ mesh' = set_transformation(mesh, transformation)
    /\ meshArg' = [op |-> "set_transformation", transformation |-> transformation]
    /\ meshRes' = NoRes
    /\ calls' = <<>>
    /\ UNCHANGED <<dev, material, progAttrs, ubVars, impVars, cubeVars, hlVars, vsVars>>

\* The fallible steps of one render_with_material call, in program order
FailPoints == {"none", "program", "use_uniforms", "modelMatrix", "position",
               "textureTransform", "uv_coordinates", "normal", "normalMatrix",
               "tangent", "color"}

\* Running result of the closure: once res is set, later steps do nothing
Running == [res |-> NoRes, calls |-> <<>>]
Step(acc, c, name, failAt) ==
    IF acc.res.kind # "none" THEN acc
    ELSE IF failAt = name THEN [acc EXCEPT !.res = Err(<<"DeviceError", name>>)]
    ELSE [acc EXCEPT !.calls = Append(@, c)]
Infallible(acc, c) ==
    IF acc.res.kind # "none" THEN acc ELSE [acc EXCEPT !.calls = Append(@, c)]
Fail(acc, r) == IF acc.res.kind # "none" THEN acc ELSE [acc EXCEPT !.res = r]

\* mesh.rs:159-161
BindPosition(acc, m, req, failAt) ==
    IF "position" \in req
    THEN Step(acc, Call("use_attribute", m.position, <<"position">>), "position", failAt)
    ELSE acc

\* mesh.rs:162-169
BindUvs(acc, m, req, failAt) ==
    IF "uv_coordinates" \in req
    THEN LET a == Step(acc, Call("use_uniform", 0, <<"textureTransform">>),
                       "textureTransform", failAt)
         IN  IF m.uv = 0 THEN Fail(a, Err(<<"MissingMeshBuffer", "uv coordinates">>))
             ELSE Step(a, Call("use_attribute", m.uv, <<"uv_coordinates">>),
                       "uv_coordinates", failAt)
    ELSE acc

\* mesh.rs:180-186
BindTangent(acc, m, req, failAt) ==
    IF "tangent" \in req
    THEN IF m.tangent = 0 THEN Fail(acc, Err(<<"MissingMeshBuffer", "tangent">>))
         ELSE Step(acc, Call("use_attribute", m.tangent, <<"tangent">>), "tangent", failAt)
    ELSE acc

\* mesh.rs:170-187; invert().unwrap() panics on a singular transformation
BindNormalsSkipMissing(acc, m, req, failAt) ==
    IF "normal" \in req /\ m.normal # 0
    THEN LET a == Step(acc, Call("use_attribute", m.normal, <<"normal">>),
                       "normal", failAt)
             b == IF m.singular THEN Fail(a, Panic("invert() is None"))
                  ELSE Step(a, Call("use_uniform", 0, <<"normalMatrix">>),
                            "normalMatrix", failAt)
         IN  BindTangent(b, m, req, failAt)
    ELSE acc
BindNormals(acc, m, req, failAt) ==
    IF "normal" \in req
    THEN IF m.normal = 0 THEN Fail(acc, Err(<<"MissingMeshBuffer", "normal">>))
         ELSE LET a == Step(acc, Call("use_attribute", m.normal, <<"normal">>),
                            "normal", failAt)
                  b == IF m.singular THEN Fail(a, Panic("invert() is None"))
                       ELSE Step(a, Call("use_uniform", 0, <<"normalMatrix">>),
                                 "normalMatrix", failAt)
              IN  BindTangent(b, m, req, failAt)
    ELSE acc

\* mesh.rs:188-194
BindColors(acc, m, req, failAt) ==
    IF "color" \in req
    THEN IF m.color = 0 THEN Fail(acc, Err(<<"MissingMeshBuffer", "color">>))
         ELSE Step(acc, Call("use_attribute", m.color, <<"color">>), "color", failAt)
    ELSE acc

\* mesh.rs:195-207
Draw(acc, m) ==
    IF m.index # 0
    THEN Infallible(acc, Call("draw_elements", m.index, <<>>))
    ELSE Infallible(acc, Call("draw_arrays", 0, <<>>))

\* mesh.rs:154-209: the closure run with the resolved program
RenderClosure(acc, m, req, failAt) ==
    LET a1 == Step(acc, Call("use_uniforms", 0, <<>>), "use_uniforms", failAt)
        a2 == Infallible(a1, Call("use_uniform_block", 0, <<"Camera">>))
        a3 == Step(a2, Call("use_uniform", 0, <<"modelMatrix">>), "modelMatrix", failAt)
        a4 == BindPosition(a3, m, req, failAt)
        a5 == BindUvs(a4, m, req, failAt)
        a6 == BindNormals(a5, m, req, failAt)
        a7 == BindColors(a6, m, req, failAt)
        a8 == Draw(a7, m)
    IN  Fail(a8, Ok(<<>>))

\* mesh.rs:143-211
render_with_material(m, frag, req, failAt) ==
    LET vs == vertex_shader_source(frag)
    IN  IF vs.kind # "Ok" THEN [res |-> vs, calls |-> <<>>]
        ELSE IF failAt = "program"
        THEN [res |-> Err(<<"ShaderCompileError">>),
              calls |-> <<Call("program", 0, vs.val)>>]
        ELSE RenderClosure([res |-> NoRes, calls |-> <<Call("program", 0, vs.val)>>],
                           m, req, failAt)

MeshRender(failAt) ==
    /\ mesh.state = "live"
    /\ material.set
    /\ meshArg' = [op |-> "render"]
    /\ \E r \in {render_with_material(mesh, material.frag, progAttrs, failAt)} :
           /\ meshRes' = r.res
           /\ calls' = r.calls
           /\ dev' = DevRun(dev, r.calls)
    /\ UNCHANGED <<mesh, material, progAttrs, ubVars, impVars, cubeVars, hlVars, vsVars>>

\* the fields are dropped in declaration order (mesh.rs:9-19)
MeshDropCalls(m) ==
    LET ids == <<m.position, m.normal, m.tangent, m.uv, m.color, m.index>>
        F[k \in 0..Len(ids)] ==
            IF k = 0 THEN <<>>
            ELSE F[k - 1] \o (IF ids[k] = 0 THEN <<>> ELSE BufferDropCalls(ids[k]))
    IN  F[Len(ids)]

MeshDrop ==
    /\ mesh.state = "live"
    /\ meshArg' = [op |-> "drop"]
    /\ meshRes' = NoRes
    /\ calls' = MeshDropCalls(mesh)
    /\ dev' = DevRun(dev, calls')
    /\ mesh' = [mesh EXCEPT !.state = "dropped"]
    /\ UNCHANGED <<material, progAttrs, ubVars, impVars, cubeVars, hlVars, vsVars>>

NextMesh ==
    \/ MeshNew
    \/ MaterialNew
    \/ \E transformation \in Transforms : MeshSetTransformation(transformation)
    \/ \E failAt \in FailPoints : MeshRender(failAt)
    \/ MeshDrop

---------------------------------------------------------------------------
(* Imposters *)
NO_VIEW_ANGLES == 8

\* texture.rs:16-24 / ColorTargetTexture2DArray::new: allocate a texture
TextureNewCalls(id, w, h, layers) ==
    << Call("create_texture", id, <<>>), Call("tex_storage", id, <<w, h, layers>>) >>
\* texture.rs:50-55
TextureDropCalls(id) == <<Call("delete_texture", id, <<>>)>>
\* Program::from_source and its release
ProgramNewCalls(id) == <<Call("create_program", id, <<>>)>>
ProgramDropCalls(id) == <<Call("delete_program", id, <<>>)>>
\* RenderTargetArray::new and its release
TargetNewCalls(id, color, depth) ==
    << Call("create_framebuffer", id, <<>>),
       Call("use_texture", color, <<>>), Call("use_texture", depth, <<>>) >>
TargetDropCalls(id) == <<Call("delete_framebuffer", id, <<>>)>>
\* uniform_buffer.rs:17: the buffer a Camera's UniformBuffer allocates
UBNewCalls(id) == <<Call("create_buffer", id, <<>>)>>

NoTex == [id |-> 0, w |-> 0, h |-> 0, layers |-> 0, writes |-> <<>>]
NewTex(id, w, h, layers) ==
    [id |-> id, w |-> w, h |-> h, layers |-> layers, writes |-> [i \in 1..layers |-> 0]]

\* imposters.rs:14-23
NoImp == [state |-> "none", program |-> 0, center |-> 0, rotation |-> 0,
          positions |-> 0, uvs |-> 0, instance_count |-> 0, texture |-> NoTex]

\* imposters.rs:28-54: the device objects in the order Imposters::new makes them
ImpOrder == <<"positions", "uvs", "program", "center", "rotation", "texture">>
ImpNewCalls(field, id) ==
    CASE field = "program" -> ProgramNewCalls(id)
      [] field = "texture" -> TextureNewCalls(id, 1, 1, NO_VIEW_ANGLES)
      [] field = "uvs" -> BufferNewCalls(id)
      [] OTHER -> <<Call("create_buffer", id, <<>>)>>
ImpDropField(field, id) ==
    CASE field = "program" -> ProgramDropCalls(id)
      [] field = "texture" -> TextureDropCalls(id)
      [] OTHER -> BufferDropCalls(id)

RECURSIVE ImpDropReverse(_)
ImpDropReverse(made) ==
    IF made = <<>> THEN <<>>
    ELSE ImpDropReverse(Tail(made)) \o ImpDropField(Head(made)[1], Head(made)[2])

\* imposters.rs:26-66
RECURSIVE ImpNewObjects(_, _, _, _, _)
ImpNewObjects(k, failAt, id, made, cs) ==
    IF k > Len(ImpOrder) THEN [ok |-> TRUE, made |-> made, calls |-> cs]
    ELSE IF failAt = k
    THEN [ok |-> FALSE, made |-> made, calls |-> cs \o ImpDropReverse(made)]
    ELSE ImpNewObjects(k + 1, failAt, id + 1, Append(made, <<ImpOrder[k], id>>),
                       cs \o ImpNewCalls(ImpOrder[k], id))

ImpNew(failAt) ==
    /\ imp.state = "none" /\ NoOtherObject(ub, mesh, cube)
    /\ dev.next + Len(ImpOrder) - 1 <= MaxIds
    /\ impArg' = [op |-> "new", aabb |-> <<>>]
    /\ passes' = <<>>
    /\ \E r \in {ImpNewObjects(1, failAt, dev.next, <<>>, <<>>)} :
           /\ calls' = r.calls
           /\ dev' = DevRun(dev, r.calls)
           /\ IF r.ok
              THEN /\ impRes' = Ok(<<>>)
                   /\ imp' = [state |-> "live",
                              program |-> IdOf(r.made, "program"),
                              center |-> IdOf(r.made, "center"),
                              rotation |-> IdOf(r.made, "rotation"),
                              positions |-> IdOf(r.made, "positions"),
                              uvs |-> IdOf(r.made, "uvs"),
                              instance_count |-> 0,
                              texture |-> NewTex(IdOf(r.made, "texture"), 1, 1,
                                                 NO_VIEW_ANGLES)]
              ELSE /\ impRes' = Err(<<"DeviceError", ImpOrder[failAt]>>)
                   /\ imp' = [NoImp EXCEPT !.state = "failed"]
    /\ UNCHANGED <<ubVars, meshVars, cubeVars, hlVars, vsVars>>

\* Bounding boxes (min, max) handed to update_texture, and the texture size
AABBs == { << <<0, 0, 0>>, <<6, 2, 8>> >>, << <<-2, 0, -4>>, <<2, 12, 4>> >> }
MaxTextureSizes == {4}

ISqrt(n) == CHOOSE r \in 0..n : r * r <= n /\ (r + 1) * (r + 1) > n
\* imposters.rs:75-77
BoxWidth(aabb) ==
    ISqrt((aabb[2][1] - aabb[1][1]) * (aabb[2][1] - aabb[1][1])
          + (aabb[2][3] - aabb[1][3]) * (aabb[2][3] - aabb[1][3]))
BoxHeight(aabb) == aabb[2][2] - aabb[1][2]
BoxCenter(aabb) == [k \in 1..3 |-> (aabb[1][k] + aabb[2][k]) \div 2]
\* imposters.rs:88-89: max * min(a / b, 1.0) truncated; a / 0 is +inf or NaN
\* and f32::min then yields 1.0
TexDim(max, a, b) ==
    IF b = 0 \/ a >= b THEN max ELSE (max * a) \div b

\* The fallible steps of one update_texture call
ImpFailPoints ==
    { [step |-> s, i |-> 0] : s \in {"none", "camera", "texture", "depth", "target"} }
    \cup { [step |-> s, i |-> i] : s \in {"set_view", "write", "render"},
                                   i \in 0..(NO_VIEW_ANGLES - 1) }

\* imposters.rs:114-119: the view of pass i, at angle i * 2 * PI / NO_VIEW_ANGLES
\* around the Y axis, written <<numerator, denominator>> in units of 2 * PI
PassCamera(i, center, width) ==
    [target |-> center, radius |-> width, angle |-> <<i, NO_VIEW_ANGLES>>]

\* imposters.rs:120-131 with RenderTargetArray::write: the layers named are
\* bound and cleared, then the closure is called once
WritePass(acc, i, cam, texId, failAt) ==
    IF acc.res.kind # "none" THEN acc
    ELSE IF failAt = [step |-> "set_view", i |-> i]
    THEN [acc EXCEPT !.res = Err(<<"DeviceError", "set_view", i>>)]
    ELSE IF failAt = [step |-> "write", i |-> i]
    THEN [acc EXCEPT !.res = Err(<<"DeviceError", "write", i>>)]
    ELSE LET a == [acc EXCEPT
                     !.calls = @ \o << Call("write_layers", texId, <<i>>),
                                       Call("clear", 0, <<>>) >>,
                     !.writes = [@ EXCEPT ![i + 1] = @ + 1],
                     !.passes = Append(@, [layers |-> <<i>>, camera |-> cam,
                                           callbacks |-> 1])]
         IN  IF failAt = [step |-> "render", i |-> i]
             THEN [a EXCEPT !.res = Err(<<"RenderError", i>>)]
             ELSE a

\* imposters.rs:113-132: for i in 0..NO_VIEW_ANGLES
RECURSIVE PassLoopSkipLast(_, _, _, _, _, _)
PassLoopSkipLast(acc, i, center, width, texId, failAt) ==
    IF i >= NO_VIEW_ANGLES - 1 THEN acc
    ELSE PassLoopSkipLast(WritePass(acc, i, PassCamera(i, center, width), texId, failAt),
                          i + 1, center, width, texId, failAt)
RECURSIVE PassLoop(_, _, _, _, _, _)
PassLoop(acc, i, center, width, texId, failAt) ==
    IF i >= NO_VIEW_ANGLES THEN acc
    ELSE PassLoop(WritePass(acc, i, PassCamera(i, center, width), texId, failAt),
                  i + 1, center, width, texId, failAt)

\* imposters.rs:68-143.  Returns the result, the calls, the passes and the
\* Imposters object after the call.
update_texture(im, aabb, max_texture_size, failAt, firstId) ==
    LET width == BoxWidth(aabb)
        height == BoxHeight(aabb)
        center == BoxCenter(aabb)
        tw == TexDim(max_texture_size, width, height)
        th == TexDim(max_texture_size, height, width)
        camId == firstId
        texId == firstId + 1
        depthId == firstId + 2
        fbId == firstId + 3
        dropCamera == UBDropCalls([id |-> camId])
        c1 == UBNewCalls(camId)
        c2 == c1 \o TextureNewCalls(texId, tw, th, NO_VIEW_ANGLES)
                 \o TextureDropCalls(im.texture.id)
        im2 == [im EXCEPT !.texture = NewTex(texId, tw, th, NO_VIEW_ANGLES)]
        c3 == c2 \o TextureNewCalls(depthId, tw, th, NO_VIEW_ANGLES)
        c4 == c3 \o TargetNewCalls(fbId, texId, depthId)
        dropLocals == TargetDropCalls(fbId) \o TextureDropCalls(depthId) \o dropCamera
        loop == PassLoop([res |-> NoRes, calls |-> c4, passes |-> <<>>,
                          writes |-> im2.texture.writes],
                         0, center, width, texId, failAt)
        im3 == [im2 EXCEPT !.texture.writes = loop.writes]
    IN  IF failAt.step = "camera"
        THEN [res |-> Err(<<"DeviceError", "camera">>), calls |-> <<>>,
              passes |-> <<>>, imp |-> im]
        ELSE IF failAt.step = "texture"
        THEN [res |-> Err(<<"DeviceError", "texture">>), calls |-> c1 \o dropCamera,
              passes |-> <<>>, imp |-> im]
        ELSE IF failAt.step = "depth"
        THEN [res |-> Err(<<"DeviceError", "depth">>), calls |-> c2 \o dropCamera,
              passes |-> <<>>, imp |-> im2]
        ELSE IF failAt.step = "target"
        THEN [res |-> Err(<<"DeviceError", "target">>),
              calls |-> c3 \o TextureDropCalls(depthId) \o dropCamera,
              passes |-> <<>>, imp |-> im2]
        ELSE IF loop.res.kind # "none"
        THEN [res |-> loop.res, calls |-> loop.calls \o dropLocals,
              passes |-> loop.passes, imp |-> im3]
        ELSE [res |-> Ok(<<>>),
              calls |-> loop.calls \o <<Call("buffer_data", im.positions, <<>>)>>
                        \o dropLocals,
              passes |-> loop.passes, imp |-> im3]

ImpUpdateTexture ==
    /\ imp.state = "live"
    /\ dev.next + 3 <= MaxIds
    /\ \E aabb \in AABBs, max_texture_size \in MaxTextureSizes, failAt \in ImpFailPoints :
           /\ impArg' = [op |-> "update_texture", aabb |-> aabb]
           /\ \E r \in {update_texture(imp, aabb, max_texture_size, failAt, dev.next)} :
                  /\ impRes' = r.res
                  /\ calls' = r.calls
                  /\ dev' = DevRun(dev, r.calls)
                  /\ passes' = r.passes
                  /\ imp' = r.imp
    /\ UNCHANGED <<ubVars, meshVars, cubeVars, hlVars, vsVars>>

\* imposters.rs:145-149
ImpUpdatePositions(n) ==
    /\ imp.state = "live"
    /\ impArg' = [op |-> "update_positions", aabb |-> <<>>]
    /\ impRes' = NoRes
    /\ calls' = << Call("buffer_data", imp.center, <<>>),
                   Call("buffer_data", imp.rotation, <<>>) >>
    /\ dev' = DevRun(dev, calls')
    /\ imp' = [imp EXCEPT !.instance_count = n \div 3]
    /\ UNCHANGED <<passes, ubVars, meshVars, cubeVars, hlVars, vsVars>>

ImpRenderFailPoints == {"none", "no_views", "tex", "position", "uv_coordinate",
                        "center", "theta"}

\* imposters.rs:156-192
ImpRender(failAt) ==
    /\ imp.state = "live"
    /\ impArg' = [op |-> "render", aabb |-> <<>>]
    /\ LET a1 == Step(Running, Call("use_uniform", imp.program, <<"no_views">>),
                      "no_views", failAt)
           a2 == Infallible(a1, Call("use_uniform_block", imp.program, <<"Camera">>))
           a3 == Step(a2, Call("use_texture", imp.texture.id, <<"tex">>), "tex", failAt)
           a4 == Step(a3, Call("use_attribute", imp.positions, <<"position">>),
                      "position", failAt)
           a5 == Step(a4, Call("use_attribute", imp.uvs, <<"uv_coordinate">>),
                      "uv_coordinate", failAt)
           a6 == Step(a5, Call("use_attribute", imp.center, <<"center">>),
                      "center", failAt)
           a7 == Step(a6, Call("use_attribute", imp.rotation, <<"theta">>),
                      "theta", failAt)
           a8 == Infallible(a7, Call("draw_arrays_instanced", imp.program,
                                     <<imp.instance_count>>))
       IN  \E r \in {Fail(a8, Ok(<<>>))} :
           /\ impRes' = r.res
           /\ calls' = r.calls
           /\ dev' = DevRun(dev, r.calls)
    /\ UNCHANGED <<imp, passes, ubVars, meshVars, cubeVars, hlVars, vsVars>>

\* the fields are dropped in declaration order (imposters.rs:14-23)
ImpDropCalls(im) ==
    ProgramDropCalls(im.program) \o BufferDropCalls(im.center)
    \o BufferDropCalls(im.rotation) \o BufferDropCalls(im.positions)
    \o BufferDropCalls(im.uvs) \o TextureDropCalls(im.texture.id)

ImpDrop ==
    /\ imp.state = "live"
    /\ impArg' = [op |-> "drop", aabb |-> <<>>]
    /\ impRes' = NoRes
    /\ calls' = ImpDropCalls(imp)
    /\ dev' = DevRun(dev, calls')
    /\ imp' = [imp EXCEPT !.state = "dropped"]
    /\ UNCHANGED <<passes, ubVars, meshVars, cubeVars, hlVars, vsVars>>

NextImp ==
    \/ \E failAt \in 0..Len(ImpOrder) : ImpNew(failAt)
    \/ ImpUpdateTexture
    \/ \E n \in {0, 3, 6} : ImpUpdatePositions(n)
    \/ \E failAt \in ImpRenderFailPoints : ImpRender(failAt)
    \/ ImpDrop

---------------------------------------------------------------------------
(* CubeMesh of the fog example (src/examples/fog/src/main.rs) *)

\* main.rs:68-76
NoCube == [state |-> "none", vertex_buffer |-> 0, index_buffer |-> 0]

\* main.rs:79-96: both buffer constructors return the buffer, not a Result
CubeNew ==
    /\ cube.state = "none" /\ NoOtherObject(ub, mesh, imp)
    /\ dev.next + 1 <= MaxIds
    /\ cube' = [state |-> "live", vertex_buffer |-> dev.next,
                index_buffer |-> dev.next + 1]
    /\ cubeArg' = [op |-> "new", compiles |-> TRUE]
    /\ cubeRes' = Ok(<<>>)
    /\ logged' = <<>>
    /\ calls' = BufferNewCalls(dev.next) \o BufferNewCalls(dev.next + 1)
    /\ dev' = DevRun(dev, calls')
    /\ UNCHANGED <<ubVars, meshVars, impVars, hlVars, vsVars>>

\* main.rs:98-105
CubeDraw(c) ==
    << Call("use_uniform", 0, <<"camera.view">>),
       Call("use_uniform", 0, <<"camera.projection">>),
       Call("use_uniform", 0, <<"modelMatrix">>),
       Call("use_attribute", c.vertex_buffer, <<"position">>),
       Call("draw_elements", c.index_buffer, <<>>) >>

\* main.rs:113-121 and 123-138: context.program(..).unwrap_or_else(|e| error!(..));
\* compiles is whether the program for the two sources can be created
CubeRender(c, compiles) ==
    IF compiles
    THEN [res |-> Ok(<<>>), logged |-> <<>>,
          calls |-> << Call("program", 0, <<"default.vert">>),
                       Call("use_uniforms", 0, <<>>) >> \o CubeDraw(c)]
    ELSE [res |-> Ok(<<>>), logged |-> <<"Failed compiling shader">>,
          calls |-> <<Call("program", 0, <<"default.vert">>)>>]

\* render_with_material (main.rs:113-121) and render_with_post_material
\* (main.rs:123-138)
CubeRenderWith(method, compiles) ==
    /\ cube.state = "live"
    /\ cubeArg' = [op |-> method, compiles |-> compiles]
    /\ \E r \in {CubeRender(cube, compiles)} :
           /\ cubeRes' = r.res
           /\ logged' = r.logged
           /\ calls' = r.calls
           /\ dev' = DevRun(dev, r.calls)
    /\ UNCHANGED <<cube, ubVars, meshVars, impVars, hlVars, vsVars>>

\* the fields are dropped in declaration order (main.rs:69-70)
CubeDropCalls(c) == BufferDropCalls(c.vertex_buffer) \o BufferDropCalls(c.index_buffer)

CubeDrop ==
    /\ cube.state = "live"
    /\ cubeArg' = [op |-> "drop", compiles |-> TRUE]
    /\ cubeRes' = NoRes
    /\ logged' = <<>>
    /\ calls' = CubeDropCalls(cube)
    /\ dev' = DevRun(dev, calls')
    /\ cube' = [cube EXCEPT !.state = "dropped"]
    /\ UNCHANGED <<ubVars, meshVars, impVars, hlVars, vsVars>>

NextCube ==
    \/ CubeNew
    \/ \E method \in {"render_with_material", "render_with_post_material"},
          compiles \in BOOLEAN : CubeRenderWith(method, compiles)
    \/ CubeDrop

---------------------------------------------------------------------------
(* Mesh::vertex_shader_source as a function of the fragment source alone *)

MaxFragLen == 3
\* text of a fragment source that is none of the declarations searched for
OtherText == {"in vec3 normal;", "void main() {}"}
FragSources == SeqsUpTo(Decls \cup OtherText, MaxFragLen)

\* mesh.rs:96-131, applied to the fragment source the behaviour starts with
VertexShaderSource ==
    /\ vsRes.kind = "none"
    /\ vsRes' = vertex_shader_source(vsArg)
    /\ UNCHANGED <<vsArg, dev, calls, ubVars, meshVars, impVars, cubeVars, hlVars>>

NextVS == VertexShaderSource

---------------------------------------------------------------------------
(* HeadlessContext (src/src/headless.rs) *)

\* headless.rs:16-19; gl and current_context are "None" or name the strategy
\* whose context they hold
NoHL == [state |-> "none", gl |-> "None", current_context |-> "None"]

\* cfg(target_os = ..): the platform the crate is built for
TargetOs == {"linux", "windows", "other"}
\* glutin::CreationError values a construction strategy fails with
CreationErrors == {"NoBackendAvailable", "NotSupported", "OsError"}
StrategyNames == {"surfaceless", "headless", "osmesa"}
\* what each strategy returns when it is tried: "ok" or its error
Outcomes == [StrategyNames -> {"ok"} \cup CreationErrors]
NoOutcomes == [s \in StrategyNames |-> "untried"]
NoBuild == [res |-> NoRes, tried |-> <<>>]

\* headless.rs:61-68
build_context_surfaceless(o) == o["surfaceless"]
\* headless.rs:70-76
build_context_headless(o) == o["headless"]
\* headless.rs:78-85
build_context_osmesa(o) == o["osmesa"]

\* headless.rs:87-119 (target_os = "linux")
build_context_linuxTryAll(o) ==
    LET err1 == build_context_surfaceless(o)
        err2 == build_context_headless(o)
        err3 == build_context_osmesa(o)
        all == <<"surfaceless", "headless", "osmesa">>
    IN  IF err3 = "ok" THEN [res |-> Ok(<<"osmesa">>), tried |-> all]
        ELSE IF err2 = "ok" THEN [res |-> Ok(<<"headless">>), tried |-> all]
        ELSE IF err1 = "ok" THEN [res |-> Ok(<<"surfaceless">>), tried |-> all]
        ELSE [res |-> Err(<<err1, err2, err3>>), tried |-> all]
build_context_linux(o) ==
    LET err1 == build_context_surfaceless(o)
        err2 == build_context_headless(o)
        err3 == build_context_osmesa(o)
    IN  IF err1 = "ok"
        THEN [res |-> Ok(<<"surfaceless">>), tried |-> <<"surfaceless">>]
        ELSE IF err2 = "ok"
        THEN [res |-> Ok(<<"headless">>), tried |-> <<"surfaceless", "headless">>]
        ELSE IF err3 = "ok"
        THEN [res |-> Ok(<<"osmesa">>),
              tried |-> <<"surfaceless", "headless", "osmesa">>]
        ELSE [res |-> Err(<<err1, err2, err3>>),
              tried |-> <<"surfaceless", "headless", "osmesa">>]

\* headless.rs:121-136 (every other target_os): the pbuffer strategy only
build_context_other(o) ==
    LET r == build_context_headless(o)
    IN  IF r = "ok" THEN [res |-> Ok(<<"headless">>), tried |-> <<"headless">>]
        ELSE [res |-> Err(<<r>>), tried |-> <<"headless">>]

build_context(target_os, o) ==
    IF target_os = "linux" THEN build_context_linux(o) ELSE build_context_other(o)

\* headless.rs:25-30
HLNew ==
    /\ hl.state = "none"
    /\ hl' = [state |-> "live", gl |-> "None", current_context |-> "None"]
    /\ hlArg' = [op |-> "new", target_os |-> "none", outcomes |-> NoOutcomes,
                 make_current |-> TRUE]
    /\ hlBuild' = NoBuild
    /\ hlRes' = Ok(<<>>)
    /\ UNCHANGED <<dev, calls, ubVars, meshVars, impVars, cubeVars, vsVars>>

\* headless.rs:35-46: returns the object after the call and the panic of an
\* unwrap(), if any
initialize_lazy(h, target_os, o, make_current) ==
    IF h.gl # "None" THEN [hl |-> h, build |-> NoBuild, panic |-> NoRes]
    ELSE LET b == build_context(target_os, o)
         IN  IF b.res.kind # "Ok"
             THEN [hl |-> h, build |-> b, panic |-> Panic("build_context(cb).unwrap()")]
             ELSE IF ~make_current
             THEN [hl |-> h, build |-> b, panic |-> Panic("make_current().unwrap()")]
             ELSE [hl |-> [h EXCEPT !.gl = b.res.val[1],
                                    !.current_context = b.res.val[1]],
                   build |-> b, panic |-> NoRes]

\* headless.rs:51-58
gl(h, target_os, o, make_current) ==
    LET i == initialize_lazy(h, target_os, o, make_current)
    IN  IF i.panic.kind # "none" THEN [hl |-> i.hl, build |-> i.build, res |-> i.panic]
        ELSE IF i.hl.gl # "None"
        THEN [hl |-> i.hl, build |-> i.build, res |-> Ok(<<i.hl.gl>>)]
        ELSE [hl |-> i.hl, build |-> i.build, res |-> Err(<<"GlNotInitialized">>)]

\* A gl() call; the platform, the strategies' outcomes and make_current's are
\* read only by a call that finds the context uninitialised
HLGl ==
    /\ hl.state = "live"
    /\ \E target_os \in TargetOs, o \in Outcomes, make_current \in BOOLEAN :
           /\ hlArg' = IF hl.gl = "None"
                       THEN [op |-> "gl", target_os |-> target_os, outcomes |-> o,
                             make_current |-> make_current]
                       ELSE [op |-> "gl", target_os |-> "none", outcomes |-> NoOutcomes,
                             make_current |-> TRUE]
           /\ \E r \in {gl(hl, target_os, o, make_current)} :
                  /\ hl' = r.hl
                  /\ hlBuild' = r.build
                  /\ hlRes' = r.res
    /\ UNCHANGED <<dev, calls, ubVars, meshVars, impVars, cubeVars, vsVars>>

NextHL ==
    \/ HLNew
    \/ HLGl

---------------------------------------------------------------------------
InitObjects ==
    /\ dev = DevInit
    /\ calls = <<>>
    /\ ub = NoUB
    /\ ubGpu = <<>>
    /\ ubBound = 0
    /\ ubArg = [op |-> "none", index |-> 0, data |-> <<>>]
    /\ ubRes = NoRes
    /\ mesh = NoMesh
    /\ material = NoMaterial
    /\ progAttrs = {}
    /\ meshArg = [op |-> "none"]
    /\ meshRes = NoRes
    /\ imp = NoImp
    /\ passes = <<>>
    /\ impArg = [op |-> "none", aabb |-> <<>>]
    /\ impRes = NoRes
    /\ cube = NoCube
    /\ cubeArg = [op |-> "none", compiles |-> TRUE]
    /\ cubeRes = NoRes
    /\ logged = <<>>
    /\ hl = NoHL
    /\ hlArg = [op |-> "none", target_os |-> "none", outcomes |-> NoOutcomes,
                make_current |-> TRUE]
    /\ hlBuild = NoBuild
    /\ hlRes = NoRes

Init == InitObjects /\ vsArg = <<>> /\ vsRes = NoRes
\* any fragment source, not yet given to vertex_shader_source
InitVS == InitObjects /\ vsArg \in FragSources /\ vsRes = NoRes

SpecUB == Init /\ [][NextUB]_vars
SpecMesh == Init /\ [][NextMesh]_vars
SpecImp == Init /\ [][NextImp]_vars
SpecCube == Init /\ [][NextCube]_vars
SpecHeadless == Init /\ [][NextHL]_vars
SpecVS == InitVS /\ [][NextVS]_vars

\* The whole program: any of the three objects is built, used and dropped.
Next == NextUB \/ NextMesh \/ NextImp \/ NextCube
Spec == Init /\ [][Next]_vars

---------------------------------------------------------------------------
(* Claims about UniformBuffer, checked under SpecUB *)

ValidIndex(b, index) == index < Len(b.sizes)
PrefixSum(sizes, n) == SumSeq(SubSeq(sizes, 1, n))

\* C1: after update(i, data) with data.len() = sizes[i] on a live buffer (fresh
\* or after any earlier updates) the call returned Ok and get(i) yields data.
C1_UpdateThenGet ==
    (ubArg.op = "update" /\ ValidIndex(ub, ubArg.index)
        /\ Len(ubArg.data) = ub.sizes[ubArg.index + 1])
    => (ubRes.kind = "Ok" /\ get(ub, ubArg.index, TRUE) = Ok(ubArg.data))

\* C1 witness: a successful non-empty update of region 1 after region 0 was
\* already updated to non-zero contents.
C1_Witness ==
    /\ ubArg.op = "update" /\ ubRes.kind = "Ok"
    /\ ub.sizes = <<1, 1>> /\ ubArg.index = 1 /\ ubArg.data = <<1>>
    /\ ub.data = <<1, 1>>

\* C2 (as claimed): update/get with index >= number of regions return the
\* out-of-range error, for every region list including the empty one.
C2_OutOfRangeIsError ==
    (ubArg.op \in {"update", "get"} /\ ~ValidIndex(ub, ubArg.index))
    => (ubRes.kind = "Err" /\ ubRes.err[1] = "IndexOutOfRange")

\* C3: an update step with a valid index and a wrong data length fails with
\* the size-mismatch error and leaves the whole buffer object as it was.
C3_MismatchStep ==
    (ubArg'.op = "update" /\ ValidIndex(ub, ubArg'.index)
        /\ Len(ubArg'.data) # ub.sizes[ubArg'.index + 1])
    => (ubRes'.kind = "Err" /\ ubRes'.err[1] = "SizeMismatch"
        /\ ub'.data = ub.data /\ ub' = ub)
C3_MismatchLeavesMirror == [][ub.state = "live" => C3_MismatchStep]_vars

\* C3 witness: a size-mismatch failure on a buffer whose mirror is not all zero.
C3_Witness ==
    /\ ubArg.op = "update" /\ ubRes.kind = "Err" /\ ubRes.err[1] = "SizeMismatch"
    /\ ub.state = "live" /\ \E i \in 1..Len(ub.data) : ub.data[i] # ZeroVal

\* C4: while the buffer lives, the offset table is the prefix sums of the
\* construction-time sizes, the mirror's length is their sum and the length
\* reported for region i is sizes[i].
C4_LayoutFixed ==
    ub.state = "live" =>
        /\ Len(ub.offsets) = Len(ub.sizes)
        /\ \A i \in 1..Len(ub.sizes) : ub.offsets[i] = PrefixSum(ub.sizes, i - 1)
        /\ Len(ub.data) = PrefixSum(ub.sizes, Len(ub.sizes))
        /\ \A i \in 1..Len(ub.sizes) :
              offset_length(ub, i - 1, TRUE) = Ok(<<PrefixSum(ub.sizes, i - 1), ub.sizes[i]>>)

\* C4 witness: a two-region buffer after a successful update
\* followed by a failing one.
C4_Witness ==
    /\ ub.state = "live" /\ ub.sizes = <<1, 1>>
    /\ ubArg.op = "update" /\ ubRes.kind = "Err"
    /\ ub.data = <<1, 0>>

---------------------------------------------------------------------------
(* Claims about Mesh::render_with_material, checked under SpecMesh *)

Rendered == meshArg.op = "render"
\* the program was resolved and the closure ran
ProgramResolved ==
    /\ Len(calls) >= 1 /\ calls[1].op = "program"
    /\ meshRes # Err(<<"ShaderCompileError">>)
DrawIssued == \E i \in 1..Len(calls) : calls[i].op \in {"draw_elements", "draw_arrays"}
AttrBound(a) == \E i \in 1..Len(calls) : calls[i].op = "use_attribute" /\ calls[i].arg = <<a>>
DeviceFailed == meshRes.kind = "Err" /\ meshRes.err[1] = "DeviceError"
MissingMeshBuffer(name) == Err(<<"MissingMeshBuffer", name>>)
BufferOf(m, a) ==
    CASE a = "position" -> m.position
      [] a = "uv_coordinates" -> m.uv
      [] a = "normal" -> m.normal
      [] a = "tangent" -> m.tangent
      [] a = "color" -> m.color
\* the optional attributes the program demands and the mesh has no buffer for
MissingDemanded == {a \in progAttrs \ {"position"} : BufferOf(mesh, a) = 0}

\* C6 (as claimed): rendering with a program that requires "normal" on a mesh
\* without a normal buffer returns MissingMeshBuffer("normal") and issues no
\* draw (read with every device binding succeeding).
C6_NormalMissingAsClaimed ==
    (Rendered /\ ProgramResolved /\ ~DeviceFailed
        /\ "normal" \in progAttrs /\ mesh.normal = 0)
    => (meshRes = MissingMeshBuffer("normal") /\ ~DrawIssued)

\* C6 (amended): such a render returns an error and issues no draw; the error
\* is MissingMeshBuffer("normal") unless an earlier step of the closure failed
\* first: a device error of a uniform/attribute binding, or the uv block's
\* MissingMeshBuffer when the program also requires uv_coordinates and the
\* mesh has no uv buffer.
C6_NormalMissingNoDraw ==
    (Rendered /\ ProgramResolved /\ "normal" \in progAttrs /\ mesh.normal = 0)
    => /\ ~DrawIssued
       /\ meshRes.kind = "Err"
       /\ \/ meshRes = MissingMeshBuffer("normal")
          \/ DeviceFailed
          \/ /\ "uv_coordinates" \in progAttrs /\ mesh.uv = 0
             /\ meshRes = MissingMeshBuffer("uv coordinates")

\* C6 witness: the normal check itself fails the render, after position and
\* uv coordinates were bound.
C6_Witness ==
    /\ Rendered /\ ProgramResolved /\ "normal" \in progAttrs /\ mesh.normal = 0
    /\ meshRes = MissingMeshBuffer("normal")
    /\ AttrBound("position") /\ AttrBound("uv_coordinates")

\* C7 (as claimed): a draw is issued only with every attribute the program
\* requires bound from the mesh's buffers.
C7_NoUnderBoundDraw ==
    (Rendered /\ DrawIssued) => \A a \in progAttrs : AttrBound(a)

\* C8: a material whose fragment source declares the tangent input but no
\* bitangent input makes render_with_material fail with MissingBitangent
\* (the result of building the vertex source) without any device call.
C8_BitangentBeforeDevice ==
    (Rendered /\ Find(material.frag, DeclTang) /\ ~Find(material.frag, DeclBitang))
    => /\ vertex_shader_source(material.frag) = Err(<<"MissingBitangent">>)
       /\ meshRes = Err(<<"MissingBitangent">>)
       /\ calls = <<>>

\* C8 witness: such a render on a mesh that has a tangent buffer, the tangent
\* declaration standing among other declarations.
C8_Witness ==
    /\ Rendered /\ material.frag = <<DeclNor, DeclTang, DeclUvs>>
    /\ mesh.tangent # 0 /\ "tangent" \in progAttrs
    /\ meshRes = Err(<<"MissingBitangent">>)

\* C9 (as claimed): when the program demands optional attributes the mesh has
\* no buffer for (and no device binding fails), the render fails with
\* MissingMeshBuffer carrying the name of such an attribute as it is queried.
C9_MissingBufferNamesAttribute ==
    (Rendered /\ ProgramResolved /\ ~DeviceFailed /\ MissingDemanded # {})
    => /\ meshRes.kind = "Err"
       /\ meshRes.err[1] = "MissingMeshBuffer"
       /\ meshRes.err[2] \in MissingDemanded

---------------------------------------------------------------------------
(* Claim about device object lifetime, checked under Spec *)

\* the device ids the live objects hold
Owned ==
    (IF ub.state = "live" THEN {ub.id} ELSE {})
    \cup (IF mesh.state = "live"
          THEN {mesh.position, mesh.normal, mesh.tangent, mesh.uv, mesh.color,
                mesh.index} \ {0}
          ELSE {})
    \cup (IF imp.state = "live"
          THEN {imp.program, imp.center, imp.rotation, imp.positions, imp.uvs,
                imp.texture.id}
          ELSE {})
    \cup (IF cube.state = "live" THEN {cube.vertex_buffer, cube.index_buffer}
          ELSE {})

\* C5: no device id is ever deleted twice or named by a call after its delete;
\* an id a live object holds has not been deleted, and every other id the
\* device handed out (dropped objects, replaced textures, locals of a call,
\* objects made before a constructor returned early) was deleted exactly once.
C5_DeletedExactlyOnce ==
    /\ \A id \in 1..MaxIds : dev.dels[id] <= 1
    /\ dev.stale = {}
    /\ \A id \in 1..(dev.next - 1) :
          IF id \in Owned THEN dev.dels[id] = 0 /\ id \in dev.live
          ELSE dev.dels[id] = 1 /\ id \notin dev.live
    /\ \A id \in dev.next..MaxIds : dev.dels[id] = 0

\* C5 witness: update_texture returned early from inside its loop, after it
\* had replaced the texture and created its camera, depth texture and target.
C5_Witness ==
    /\ imp.state = "live" /\ impArg.op = "update_texture"
    /\ impRes.kind = "Err" /\ Len(passes) = 3
    /\ dev.dels[imp.texture.id - 1] = 1 /\ dev.dels[imp.texture.id + 2] = 1

---------------------------------------------------------------------------
(* Claim about Imposters::update_texture, checked under SpecImp *)

\* C10: after a successful update_texture the colour texture array has 8
\* layers and exactly 8 passes ran, pass i (0..7, in this order) writing only
\* layer i, calling the render closure once, with the camera at angle
\* i * 2 * PI / 8 looking at the centre of the bounding box; every layer was
\* written exactly once.
C10_EightPasses ==
    (impArg.op = "update_texture" /\ impRes.kind = "Ok") =>
        /\ imp.texture.layers = 8
        /\ imp.texture.writes = [i \in 1..8 |-> 1]
        /\ Len(passes) = 8
        /\ \A i \in 1..8 :
              /\ passes[i].layers = <<i - 1>>
              /\ passes[i].callbacks = 1
              /\ passes[i].camera.angle = <<i - 1, 8>>
              /\ \A k \in 1..3 : 2 * passes[i].camera.target[k]
                                   = impArg.aabb[1][k] + impArg.aabb[2][k]
        /\ \A i, j \in 1..8 : i # j => passes[i].camera.angle # passes[j].camera.angle

\* C10 witness: a successful rebuild that replaced an earlier rebuilt texture.
C10_Witness ==
    /\ impArg.op = "update_texture" /\ impRes.kind = "Ok"
    /\ Len(passes) = 8 /\ imp.texture.w = 2 /\ imp.texture.h = 4
    /\ imp.texture.id > 10

---------------------------------------------------------------------------
(* Claim about the texture Imposters::render samples, checked under SpecImp *)

\* every layer of the texture has been rendered once
FullyRendered(tex) == tex.layers = 8 /\ tex.writes = [i \in 1..8 |-> 1]

\* C11 (as claimed): whenever update_texture returns, with Ok or with an
\* error, the texture held by the Imposters (the one render samples) is
\* either the texture held before the call or a new texture all 8 of whose
\* layers were rendered by this call.
C11_NoPartialTexture ==
    [][(imp.state = "live" /\ impArg'.op = "update_texture")
          => (imp'.texture = imp.texture \/ FullyRendered(imp'.texture))]_vars

---------------------------------------------------------------------------
(* Claims about headless context bring-up, checked under SpecHeadless *)

\* the last call was a gl() that ran build_context
BringUpRan == hlArg.op = "gl" /\ hlBuild.tried # <<>>
StrategyOrder == <<"surfaceless", "headless", "osmesa">>

\* C12: on Linux build_context tries surfaceless, then pbuffer headless, then
\* osmesa; every strategy tried before the last one failed, a strategy that
\* succeeds is the last one tried and its context is the one returned, and
\* a failure is returned only after all three failed, carrying their three
\* errors in the order of the attempts.
C12_StrategiesInOrder ==
    (BringUpRan /\ hlArg.target_os = "linux") =>
        LET t == hlBuild.tried
            o == hlArg.outcomes
        IN  /\ Len(t) \in 1..3
            /\ t = SubSeq(StrategyOrder, 1, Len(t))
            /\ \A i \in 1..(Len(t) - 1) : o[t[i]] # "ok"
            /\ IF \E st \in StrategyNames : o[st] = "ok"
               THEN /\ hlBuild.res = Ok(<<t[Len(t)]>>)
                    /\ o[t[Len(t)]] = "ok"
               ELSE /\ Len(t) = 3
                    /\ hlBuild.res = Err(<<o["surfaceless"], o["headless"], o["osmesa"]>>)

\* C12 witness: surfaceless fails, the pbuffer strategy succeeds and osmesa,
\* which would succeed too, is not tried.
C12_Witness ==
    /\ BringUpRan /\ hlArg.target_os = "linux"
    /\ hlArg.outcomes["surfaceless"] = "NotSupported"
    /\ hlArg.outcomes["osmesa"] = "ok"
    /\ hlBuild.tried = <<"surfaceless", "headless">>
    /\ hl.gl = "headless"

\* bring-up failed: no strategy produced a context, or make_current failed
BringUpFailed ==
    BringUpRan /\ (hlBuild.res.kind = "Err" \/ ~hlArg.make_current)

\* C13 (as claimed): a failed bring-up makes gl() return the headless error
\* value, and leaves the context uninitialised.
C13_BringUpFailureIsError ==
    BringUpFailed => (hlRes = Err(<<"GlNotInitialized">>) /\ hl.gl = "None")

---------------------------------------------------------------------------
(* Claim about UniformBuffer::new, checked under SpecUB *)

\* C14 (as claimed): when the device fails to create the backing buffer,
\* UniformBuffer::new returns an Err and produces no UniformBuffer.
C14_NewFailureIsErr ==
    (ubArg.op = "new" /\ ub.state = "failed") => ubRes.kind = "Err"

---------------------------------------------------------------------------
(* Claim about draws whose program cannot be created, checked under Spec *)

\* the last call was a CubeMesh render whose program could not be created
CubeCompileFailed ==
    cubeArg.op \in {"render_with_material", "render_with_post_material"}
    /\ ~cubeArg.compiles
\* the last call was a Mesh render whose program could not be created
MeshCompileFailed ==
    /\ Rendered /\ Len(calls) >= 1 /\ calls[1].op = "program"
    /\ meshRes = Err(<<"ShaderCompileError">>)
Logged == logged # <<>>

\* C15 (as claimed): when the program of a draw cannot be created, the draw
\* is skipped and the failure is logged: no draw call is issued, the render
\* method does not panic and returns normally so that the frame goes on, for
\* CubeMesh and for Mesh::render_with_material.
C15_CompileFailureSkippedAndLogged ==
    /\ CubeCompileFailed =>
          /\ ~DrawIssued /\ Logged
          /\ cubeRes = Ok(<<>>) /\ cube.state = "live"
    /\ MeshCompileFailed =>
          /\ ~DrawIssued /\ Logged
          /\ meshRes.kind \notin {"Err", "panic"} /\ mesh.state = "live"

---------------------------------------------------------------------------
(* Claim about what UniformBuffer::update sends, checked under SpecUB *)

\* C16: a successful update issues exactly bind uniform buffer, upload of
\* the whole mirror (every region, the new values spliced in), unbind; after
\* it the device copy equals the mirror and no uniform buffer is bound.  An
\* update that fails issues no device call.
C16_UpdateUploadsWholeMirror ==
    /\ (ubArg.op = "update" /\ ubRes.kind = "Ok") =>
          /\ calls = << Call("bind_buffer", ub.id, <<>>),
                        Call("buffer_data_f32", ub.id, ub.data),
                        Call("unbind_buffer", 0, <<>>) >>
          /\ Len(ub.data) = SumSeq(ub.sizes)
          /\ SubSeq(ub.data, PrefixSum(ub.sizes, ubArg.index) + 1,
                    PrefixSum(ub.sizes, ubArg.index) + ub.sizes[ubArg.index + 1])
               = ubArg.data
          /\ ubGpu = ub.data
          /\ ubBound = 0
    /\ (ubArg.op = "update" /\ ubRes.kind # "Ok") => calls = <<>>

\* C16 witness: the second region of a two-region buffer is updated after
\* the buffer was bound to a binding point; both regions reach the device.
C16_Witness ==
    /\ ubArg.op = "update" /\ ubRes.kind = "Ok" /\ ubArg.index = 1
    /\ ub.sizes = <<1, 1>> /\ ub.data = <<1, 1>>
    /\ ubGpu = <<1, 1>> /\ ubBound = 0
    /\ Len(calls) = 3

---------------------------------------------------------------------------
(* Claim about Mesh::vertex_shader_source, checked under SpecVS *)

Occurs(decl) == \E i \in 1..Len(vsArg) : vsArg[i] = decl
Defines(flag) == \E i \in 1..Len(vsRes.val) : vsRes.val[i] = flag
FeatureFlags == {"#define USE_POSITIONS", "#define USE_NORMALS",
                 "#define USE_TANGENTS", "#define USE_UVS", "#define USE_COLORS"}

\* C17: for every fragment source the vertex source is built unless the
\* tangent declaration occurs without the bitangent one; the source built
\* defines USE_NORMALS, USE_UVS, USE_COLORS and USE_TANGENTS exactly when
\* "in vec3 nor;", "in vec2 uvs;", "in vec4 col;" and "in vec3 tang;" occur in
\* the fragment source, each flag at most once and all of them before the
\* base template, which ends the source.
C17_FlagsFollowDeclarations ==
    vsRes.kind # "none" =>
        IF Occurs("in vec3 tang;") /\ ~Occurs("in vec3 bitang;")
        THEN vsRes = Err(<<"MissingBitangent">>)
        ELSE /\ vsRes.kind = "Ok"
             /\ Defines("#define USE_NORMALS") <=> Occurs("in vec3 nor;")
             /\ Defines("#define USE_UVS") <=> Occurs("in vec2 uvs;")
             /\ Defines("#define USE_COLORS") <=> Occurs("in vec4 col;")
             /\ Defines("#define USE_TANGENTS") <=> Occurs("in vec3 tang;")
             /\ LET v == vsRes.val
                    n == Len(v)
                IN  /\ n >= 2
                    /\ SubSeq(v, n - 1, n) = <<"shared.frag", "mesh.vert">>
                    /\ \A i \in 1..(n - 2) : v[i] \in FeatureFlags
                    /\ \A i, j \in 1..(n - 2) : v[i] = v[j] => i = j

\* C17 witness: tangents with bitangents and uvs, and a declaration that only
\* resembles the normal one.
C17_Witness ==
    /\ vsArg = <<"in vec3 tang;", "in vec3 bitang;", "in vec3 normal;">>
    /\ vsRes = Ok(<<"#define USE_TANGENTS", "shared.frag", "mesh.vert">>)

---------------------------------------------------------------------------
(* Claim about the bounding boxes of a Mesh, checked under SpecMesh *)

\* the box around the corners of box after scaling and shifting them
Moved(box, scale, shift) ==
    LET a == scale * box[1] + shift
        b == scale * box[2] + shift
    IN  <<IF a <= b THEN a ELSE b, IF a <= b THEN b ELSE a>>

\* C18: a live mesh's aabb is its aabb_local transformed by its current
\* transformation, which after set_transformation(t) is t alone; no call
\* changes aabb_local once Mesh::new has returned; and right after Mesh::new
\* the transformation is the identity and aabb equals aabb_local.
C18_AabbFollowsLastTransformation ==
    /\ [](mesh.state = "live" =>
            /\ mesh.aabb = Moved(mesh.aabb_local, mesh.transformation.scale,
                                 mesh.transformation.shift)
            /\ meshArg.op = "set_transformation" =>
                  /\ mesh.transformation = meshArg.transformation
                  /\ mesh.aabb = Moved(mesh.aabb_local, meshArg.transformation.scale,
                                       meshArg.transformation.shift)
            /\ meshArg.op = "new" =>
                  /\ mesh.transformation = [scale |-> 1, shift |-> 0]
                  /\ mesh.aabb = mesh.aabb_local)
    /\ [][(mesh.state = "live" /\ mesh'.state = "live")
             => mesh'.aabb_local = mesh.aabb_local]_vars

\* C18 witness: a shifted mesh, its local box untouched.
C18_Witness ==
    /\ mesh.state = "live" /\ meshArg.op = "set_transformation"
    /\ mesh.transformation = [scale |-> 1, shift |-> 1]
    /\ mesh.aabb_local = <<-1, 1>> /\ mesh.aabb = <<0, 2>>
    /\ material.set

====
